---- MODULE Spec2Model ----
(***************************************************************************)
(* Model of fermipy/jobs/file_archive.py: the FileArchive (persisted table *)
(* plus in-memory cache of FileHandle objects), its register / update /    *)
(* get_file_ids operations, and the filesystem those operations consult.   *)
(* Strings are sequences of one-character strings, so that str.replace and *)
(* os.path.join are computed rather than assumed.                          *)
(***************************************************************************)
EXTENDS Integers, Sequences, FiniteSets, TLC

\* ---------------------------------------------------------------- bounds
MaxRows == 2
MaxMtime == 1
MaxList == 2
MaxRel == 3
MaxKeys == 1
MaxRecs == 2

\* ------------------------------------------------------- FileStatus enum
no_file == 0
expected == 1
exists == 2
missing == 3
superseded == 4
temp_removed == 5

FileStatus == {no_file, expected, exists, missing, superseded, temp_removed}

\* -------------------------------------------------------- FileFlags enum
no_flags == 0
input_mask == 1
output_mask == 2

\* ------------------------------------------------------ exception kinds
NoError == "none"
KeyError == "KeyError"
ValueError == "ValueError"
AttributeError == "AttributeError"
TypeError == "TypeError"
IndexError == "IndexError"
UnboundLocalError == "UnboundLocalError"

\* The spec's names for the error conditions of the archive.
Duplicate == KeyError
NotFound == KeyError
Inconsistent == ValueError

\* ------------------------------------------------------------- strings
\* str.replace(old, new): every non-overlapping occurrence, left to right.
RECURSIVE str_replace(_, _, _)
str_replace(s, old, new) ==
    IF old = <<>>
    THEN IF s = <<>> THEN new
         ELSE new \o <<Head(s)>> \o str_replace(Tail(s), old, new)
    ELSE IF Len(s) < Len(old) THEN s
    ELSE IF SubSeq(s, 1, Len(old)) = old
         THEN new \o str_replace(SubSeq(s, Len(old) + 1, Len(s)), old, new)
         ELSE <<Head(s)>> \o str_replace(Tail(s), old, new)

\* os.path.join(a, b) for two components (posix).
os_path_join(a, b) ==
    IF b # <<>> /\ Head(b) = "/" THEN b
    ELSE IF a = <<>> \/ a[Len(a)] = "/" THEN a \o b
    ELSE a \o <<"/">> \o b

_get_fullpath(base, filepath) ==
    IF filepath[1] = "/" THEN filepath ELSE os_path_join(base, filepath)

_get_localpath(base, filepath) == str_replace(filepath, base, <<>>)

\* ------------------------------------------------------------- inputs
BasePaths == { <<"/", "d">> }
\* One absolute path under the base and one relative path.
FilePaths == { <<"/", "d", "/", "a">>, <<"b">> }
FullPaths == { _get_fullpath(b, p) : b \in BasePaths, p \in FilePaths }
Creators == {7}
NoCreator == -1
\* Requested statuses: the default, and the two that update_file checks.
StatusInputs == {no_file, exists, superseded}

\* A snapshot of the filesystem as one call sees it: for every full path,
\* the file's modification time, or NoFile when it is not on disk.  The
\* snapshots enumerated have at most one file on disk.
NoFile == -1
Mtimes == 1 .. MaxMtime
EmptyFs == [fp \in FullPaths |-> NoFile]
FsStates == {EmptyFs} \cup
            { [EmptyFs EXCEPT ![fp] = m] : fp \in FullPaths, m \in Mtimes }

VARIABLES
    base_path,  \* FileArchive._base_path
    table,      \* FileArchive._table: the rows, in order
    cache,      \* FileArchive._cache: localpath -> FileHandle
    last,       \* the most recent call: its paths and what it returned/raised
    pc,         \* per thread: position inside a call (concurrent runs)
    loc,        \* per thread: the call's arguments and local variables
    fd,         \* a FileDict object: file_args, file_dict
    io          \* arguments and results of the helper functions under study

vars == <<base_path, table, cache, last, pc, loc, fd, io>>

\* ------------------------------------------------------------ FileHandle
FileHandle(key, path, creator, timestamp, status, flags) ==
    [key |-> key, path |-> path, creator |-> creator,
     timestamp |-> timestamp, status |-> status, flags |-> flags]

NoHandle == FileHandle(-1, <<>>, -1, 0, no_file, no_flags)

\* table.add_row(dict(path=..., key=..., ...)): a copy of the fields (the
\* path column holds 256 bytes; every path modelled is shorter).
_append_to_table(handle, tbl) == Append(tbl, handle)

\* Rebinds its local parameter to a new dict; the table row is not written.
_update_table_row(handle, tbl, idx) == tbl

\* Mutant: the file is taken to be on disk without looking.
os_path_exists_always(f, fullpath) == TRUE

\* os.path.exists / os.stat(...).st_mtime on the modelled filesystem.
os_path_exists(f, fullpath) == f[fullpath] # NoFile
st_mtime(f, fullpath) == f[fullpath]

\* ----------------------------------------------------------- FileArchive
\* get_handle: cache[localpath], KeyError when absent.
get_handle_raises(base, c, filepath) ==
    _get_localpath(base, filepath) \notin DOMAIN c

get_handle(base, c, filepath) == c[_get_localpath(base, filepath)]

\* Mutant: the 0-based row index taken for the key.
next_key_zero_based(tbl) == Len(tbl)

\* key = len(self._table) + 1
next_key(tbl) == Len(tbl) + 1

\* Mutant: the new handle is not stored in the cache.
cache_put_skipped(c, localpath, handle) == c

\* self._cache[localpath] = file_handle
cache_put(c, localpath, handle) ==
    [p \in DOMAIN c \cup {localpath} |->
        IF p = localpath THEN handle ELSE c[p]]

\* The try block of register_file: get_handle raises KeyError for an
\* untracked path, the explicit raise raises KeyError for a tracked one;
\* "except KeyError: pass" catches both.
register_check(base, c, filepath) ==
    LET raised == IF get_handle_raises(base, c, filepath)
                  THEN KeyError
                  ELSE KeyError
    IN  IF raised = KeyError THEN NoError ELSE raised

register_file(base, tbl, c, f, filepath, creator, status, flags) ==
    LET err       == register_check(base, c, filepath)
        localpath == _get_localpath(base, filepath)
        fullpath  == _get_fullpath(base, filepath)
        present   == os_path_exists(f, fullpath)
        status2   == IF status = exists /\ ~present THEN missing ELSE status
        timestamp == IF status = exists /\ present
                     THEN st_mtime(f, fullpath) ELSE 0
        key       == next_key(tbl)
        handle    == FileHandle(key, localpath, creator, timestamp,
                                status2, flags)
    IN  IF err # NoError
        THEN [table |-> tbl, cache |-> c, err |-> err, handle |-> NoHandle]
        ELSE [table |-> _append_to_table(handle, tbl),
              cache |-> cache_put(c, localpath, handle),
              err |-> NoError, handle |-> handle]

\* Mutant: an untracked path is registered instead of rejected (upsert).
update_untracked_registers(base, tbl, c, f, filepath, creator, status) ==
    register_file(base, tbl, c, f, filepath, creator, status, no_flags)

\* update_file on an untracked path: get_handle raises KeyError, which
\* update_file does not catch.
update_untracked(base, tbl, c, f, filepath, creator, status) ==
    [table |-> tbl, cache |-> c, err |-> KeyError, handle |-> NoHandle]

update_file(base, tbl, c, f, filepath, creator, status) ==
    LET localpath == _get_localpath(base, filepath)
        unchanged(e) == [table |-> tbl, cache |-> c, err |-> e,
                         handle |-> NoHandle]
    IN  IF get_handle_raises(base, c, filepath)
        THEN update_untracked(base, tbl, c, f, filepath, creator, status)
        ELSE
        LET file_handle == get_handle(base, c, filepath)
        IN  IF status \in {exists, superseded}
            THEN \* fullpath = file_handle.fullpath
                 IF "fullpath" \notin DOMAIN file_handle
                 THEN unchanged(AttributeError)
                 ELSE IF ~os_path_exists(f, file_handle.fullpath)
                 THEN unchanged(ValueError)
                 ELSE LET h == [file_handle EXCEPT
                                  !.creator = creator,
                                  !.timestamp = st_mtime(f, file_handle.fullpath),
                                  !.status = status]
                      IN [table |-> _update_table_row(h, tbl, h.key),
                          cache |-> [c EXCEPT ![localpath] = h],
                          err |-> NoError, handle |-> h]
            ELSE LET h == [file_handle EXCEPT !.creator = creator,
                                              !.timestamp = 0,
                                              !.status = status]
                 IN [table |-> _update_table_row(h, tbl, h.key),
                     cache |-> [c EXCEPT ![localpath] = h],
                     err |-> NoError, handle |-> h]

\* creator=None / file_dict=None of get_file_ids.
PyNone == -2
NoDict == [given |-> FALSE, file_dict |-> [p \in {} |-> no_flags]]
FileDictOf(d) == [given |-> TRUE, file_dict |-> d]

\* The loop body of get_file_ids, one path at a time; a KeyError raised by
\* the classifier lookup leaves the loop with the archive as it then is.
RECURSIVE get_file_ids_loop(_, _, _, _, _, _, _, _, _)
get_file_ids_loop(base, tbl, c, f, file_list, creator, status, file_dict, ret_list) ==
    IF file_list = <<>>
    THEN [table |-> tbl, cache |-> c, err |-> NoError, ids |-> ret_list]
    ELSE
    LET fname == Head(file_list)
    IN  IF file_dict.given /\ fname \notin DOMAIN file_dict.file_dict
        THEN [table |-> tbl, cache |-> c, err |-> KeyError, ids |-> <<>>]
        ELSE
        LET flags == IF file_dict.given THEN file_dict.file_dict[fname]
                     ELSE no_flags
        IN  IF ~get_handle_raises(base, c, fname)
            THEN get_file_ids_loop(base, tbl, c, f, Tail(file_list), creator,
                     status, file_dict,
                     Append(ret_list, get_handle(base, c, fname).key))
            ELSE
            LET creator2 == IF creator = PyNone THEN NoCreator ELSE creator
                r == register_file(base, tbl, c, f, fname, creator2, status,
                                   flags)
            IN  IF r.err # NoError
                THEN [table |-> r.table, cache |-> r.cache, err |-> r.err,
                      ids |-> <<>>]
                ELSE get_file_ids_loop(base, r.table, r.cache, f,
                         Tail(file_list), creator2, status, file_dict,
                         Append(ret_list, r.handle.key))

get_file_ids(base, tbl, c, f, file_list, creator, status, file_dict) ==
    get_file_ids_loop(base, tbl, c, f, file_list, creator, status, file_dict,
                      <<>>)

\* The id_list argument of get_file_paths: None, a Python list (what
\* get_file_ids returns) or a numpy integer array.
IdNone == [type |-> "NoneType", items |-> <<>>]
IdList(ids) == [type |-> "list", items |-> ids]
IdArray(ids) == [type |-> "ndarray", items |-> ids]

\* get_file_paths: "id_list-1" is defined for an array and raises TypeError
\* for a list; the table is then indexed with the 0-based array, numpy
\* style (a negative index counts from the end).
get_file_paths(tbl, id_list) ==
    IF id_list.type = "NoneType"
    THEN [err |-> NoError, paths |-> <<>>]
    ELSE IF id_list.type = "list"
    THEN [err |-> TypeError, paths |-> <<>>]
    ELSE LET n == Len(tbl)
             idx == [i \in 1 .. Len(id_list.items) |-> id_list.items[i] - 1]
         IN  IF \E i \in DOMAIN idx : idx[i] >= n \/ idx[i] < 0 - n
             THEN [err |-> IndexError, paths |-> <<>>]
             ELSE [err |-> NoError,
                   paths |-> [i \in DOMAIN idx |->
                                 tbl[((idx[i] + n) % n) + 1].path]]

\* ------------------------------------------------------------- inputs
FileLists == UNION { [1 .. n -> FilePaths] : n \in 0 .. MaxList }
FileDicts == { NoDict, FileDictOf([p \in {<<"b">>} |-> input_mask]) }

Threads == {1, 2}

\* ----------------------------------------------------- observation record
\* The most recent call: which operation, the exception it raised, and the
\* FileHandle it returned (register_file, update_file).
NoCall == [op |-> "none", err |-> NoError, handle |-> NoHandle]

IdleLoc == [op |-> "none", filepath |-> <<>>, status |-> no_file,
            timestamp |-> 0, key |-> 0, ret |-> 0]

\* No FileDict object and no helper call are under study.
NoFileDict == [op |-> "none"]
NoIo == [op |-> "none"]

\* ------------------------------------------------------------------ Init
\* FileArchive.__init__ with no table file on disk: empty table and cache.
Init ==
    /\ base_path \in BasePaths
    /\ table = <<>>
    /\ cache = [p \in {} |-> NoHandle]
    /\ last = NoCall
    /\ pc = [t \in Threads |-> "idle"]
    /\ loc = [t \in Threads |-> IdleLoc]
    /\ fd = NoFileDict
    /\ io = NoIo

\* --------------------------------------------------------------- actions
\* One call register_file(filepath, creator, status), the filesystem being
\* in state f.
RegisterFileCall(filepath, creator, status, f) ==
    /\ Len(table) < MaxRows
    /\ LET r == register_file(base_path, table, cache, f, filepath,
                              creator, status, no_flags)
       IN  /\ table' = r.table
           /\ cache' = r.cache
           /\ last' = [op |-> "register_file", err |-> r.err,
                       handle |-> r.handle]
    /\ UNCHANGED <<base_path, pc, loc, fd, io>>

RegisterFile ==
    \E filepath \in FilePaths, creator \in Creators, status \in StatusInputs,
       f \in FsStates :
        RegisterFileCall(filepath, creator, status, f)

\* One call update_file(filepath, creator, status), the filesystem being in
\* state f.
UpdateFileCall(filepath, creator, status, f) ==
    /\ LET r == update_file(base_path, table, cache, f, filepath,
                            creator, status)
       IN  /\ table' = r.table
           /\ cache' = r.cache
           /\ last' = [op |-> "update_file", err |-> r.err,
                       handle |-> r.handle]
    /\ UNCHANGED <<base_path, pc, loc, fd, io>>

UpdateFile ==
    \E filepath \in FilePaths, creator \in Creators, status \in StatusInputs,
       f \in FsStates :
        UpdateFileCall(filepath, creator, status, f)

\* One call get_file_ids(file_list, creator=None, status=expected,
\* file_dict); with this status no file is looked up on disk.
GetFileIdsCall(file_list, file_dict) ==
    /\ LET r == get_file_ids(base_path, table, cache, EmptyFs, file_list,
                             PyNone, expected, file_dict)
       IN  /\ Len(r.table) <= MaxRows
           /\ table' = r.table
           /\ cache' = r.cache
           /\ last' = [op |-> "get_file_ids", err |-> r.err,
                       handle |-> NoHandle]
    /\ UNCHANGED <<base_path, pc, loc, fd, io>>

GetFileIds ==
    \E file_list \in FileLists, file_dict \in FileDicts :
        GetFileIdsCall(file_list, file_dict)

Next ==
    \/ RegisterFile
    \/ UpdateFile
    \/ GetFileIds

Spec == Init /\ [][Next]_vars

\* ------------------------------------------------- concurrent callers
\* Two threads share one FileArchive; each makes one call, register_file or
\* get_file_ids([fname]).  The code takes no lock, so a thread can be
\* preempted between any two statements; every action below is one
\* statement (or a run of statements that touch only locals).

\* A thread enters register_file(filepath, creator, status) or
\* get_file_ids([filepath], creator=None, status=expected).
Call(t) ==
    /\ pc[t] = "idle"
    /\ \E filepath \in FilePaths :
        \/ /\ \E status \in StatusInputs :
                loc' = [loc EXCEPT ![t] = [IdleLoc EXCEPT
                           !.op = "register_file", !.filepath = filepath,
                           !.status = status]]
           /\ pc' = [pc EXCEPT ![t] = "reg_check"]
        \/ /\ loc' = [loc EXCEPT ![t] = [IdleLoc EXCEPT
                           !.op = "get_file_ids", !.filepath = filepath,
                           !.status = expected]]
           /\ pc' = [pc EXCEPT ![t] = "gfi_lookup"]
    /\ UNCHANGED <<base_path, table, cache, last, fd, io>>

\* get_file_ids: try: fhandle = self.get_handle(fname)
GfiLookup(t) ==
    /\ pc[t] = "gfi_lookup"
    /\ IF get_handle_raises(base_path, cache, loc[t].filepath)
       THEN /\ pc' = [pc EXCEPT ![t] = "reg_check"]
            /\ loc' = loc
       ELSE /\ pc' = [pc EXCEPT ![t] = "done"]
            /\ loc' = [loc EXCEPT ![t].ret =
                           get_handle(base_path, cache, loc[t].filepath).key]
    /\ UNCHANGED <<base_path, table, cache, last, fd, io>>

\* register_file up to the computation of status and timestamp: the
\* duplicate check (whose KeyError is swallowed) and the look at the disk.
RegCheck(t) ==
    /\ pc[t] = "reg_check"
    /\ register_check(base_path, cache, loc[t].filepath) = NoError
    /\ \E f \in FsStates :
        LET fullpath == _get_fullpath(base_path, loc[t].filepath)
            present  == os_path_exists(f, fullpath)
            status   == loc[t].status
        IN  loc' = [loc EXCEPT
                ![t].status = IF status = exists /\ ~present
                              THEN missing ELSE status,
                ![t].timestamp = IF status = exists /\ present
                                 THEN st_mtime(f, fullpath) ELSE 0]
    /\ pc' = [pc EXCEPT ![t] = "reg_key"]
    /\ UNCHANGED <<base_path, table, cache, last, fd, io>>

\* key = len(self._table) + 1
RegKey(t) ==
    /\ pc[t] = "reg_key"
    /\ loc' = [loc EXCEPT ![t].key = next_key(table)]
    /\ pc' = [pc EXCEPT ![t] = "reg_append"]
    /\ UNCHANGED <<base_path, table, cache, last, fd, io>>

ThreadHandle(t) ==
    FileHandle(loc[t].key, _get_localpath(base_path, loc[t].filepath),
               IF loc[t].op = "get_file_ids" THEN NoCreator
               ELSE CHOOSE c \in Creators : TRUE,
               loc[t].timestamp, loc[t].status, no_flags)

\* file_handle._append_to_table(self._table)
RegAppend(t) ==
    /\ pc[t] = "reg_append"
    /\ table' = _append_to_table(ThreadHandle(t), table)
    /\ pc' = [pc EXCEPT ![t] = "reg_cache"]
    /\ UNCHANGED <<base_path, cache, last, loc, fd, io>>

\* self._cache[localpath] = file_handle; return file_handle
RegCache(t) ==
    /\ pc[t] = "reg_cache"
    /\ cache' = cache_put(cache, _get_localpath(base_path, loc[t].filepath),
                          ThreadHandle(t))
    /\ loc' = [loc EXCEPT ![t].ret = loc[t].key]
    /\ pc' = [pc EXCEPT ![t] = "done"]
    /\ UNCHANGED <<base_path, table, last, fd, io>>

NextConc ==
    \E t \in Threads :
        \/ Call(t)
        \/ GfiLookup(t)
        \/ RegCheck(t)
        \/ RegKey(t)
        \/ RegAppend(t)
        \/ RegCache(t)

SpecConc == Init /\ [][NextConc]_vars

\* ----------------------------------------------------------------- claims
Tracked(filepath) == ~get_handle_raises(base_path, cache, filepath)

\* C1: register on a path that is already tracked fails with Duplicate
\* and leaves the table and the cache as they were.
C1_RegisterTrackedFails ==
    [][\A filepath \in FilePaths, creator \in Creators,
          status \in StatusInputs, f \in FsStates :
          (Tracked(filepath) /\ RegisterFileCall(filepath, creator, status, f))
              => (last'.err = Duplicate /\ table' = table /\ cache' = cache)
      ]_vars

\* C2: no two rows of the persisted table have the same path.
C2_TablePathsUnique ==
    \A i, j \in 1 .. Len(table) :
        table[i].path = table[j].path => i = j

\* C3: row i of the table has key i (keys strictly increasing in creation
\* order, each new record gets count + 1), and no two cached records share
\* a key.
C3_KeysIncreasing ==
    /\ \A i \in 1 .. Len(table) : table[i].key = i
    /\ \A p, q \in DOMAIN cache : cache[p].key = cache[q].key => p = q
    /\ (last.op = "register_file" /\ last.err = NoError)
           => last.handle.key = Len(table)

\* A second record has just been registered.
C3_Witness ==
    /\ Len(table) >= 2
    /\ last.op = "register_file"
    /\ last.err = NoError
    /\ last.handle.key = 2

\* C4: from any state the archive can be in, get_file_ids([p], creator,
\* status) called twice in a row returns the same one-element key list both
\* times; over the two calls the table grows by one row if p was untracked
\* and by none if it was tracked.
C4_ResolveTwiceSameKey ==
    \A p \in FilePaths, file_dict \in FileDicts,
       creator \in Creators \cup {PyNone}, status \in StatusInputs,
       f \in FsStates :
        LET r1 == get_file_ids(base_path, table, cache, f, <<p>>, creator,
                               status, file_dict)
            r2 == get_file_ids(base_path, r1.table, r1.cache, f, <<p>>,
                               creator, status, file_dict)
        IN  r1.err = NoError =>
                /\ r2.err = NoError
                /\ Len(r1.ids) = 1
                /\ r2.ids = r1.ids
                /\ Len(r2.table) = Len(table) + (IF Tracked(p) THEN 0 ELSE 1)

\* A get_file_ids call has just returned; asked again for a path that is
\* now tracked, it reports that record's key and adds no row.
C4_Witness ==
    /\ last.op = "get_file_ids"
    /\ last.err = NoError
    /\ \E p \in FilePaths :
        LET r == get_file_ids(base_path, table, cache, EmptyFs, <<p>>, PyNone,
                              expected, NoDict)
        IN  /\ Tracked(p)
            /\ r.ids = <<get_handle(base_path, cache, p).key>>
            /\ r.table = table

\* C5: when two concurrent callers have finished: if both resolved the same
\* path with get_file_ids, one record was created for it and both got the
\* same key; if they named different paths, they got different keys.
C5_CheckThenActAtomic ==
    (\A t \in Threads : pc[t] = "done") =>
        \A t, u \in Threads :
            LET lt == _get_localpath(base_path, loc[t].filepath)
                lu == _get_localpath(base_path, loc[u].filepath)
            IN  /\ (/\ t # u
                    /\ loc[t].op = "get_file_ids"
                    /\ loc[u].op = "get_file_ids"
                    /\ lt = lu)
                   => /\ loc[t].ret = loc[u].ret
                      /\ Cardinality({i \in 1 .. Len(table) :
                                         table[i].path = lt}) = 1
                /\ (t # u /\ lt # lu) => loc[t].ret # loc[u].ret

\* C6: every cached record with key k equals the persisted row at position
\* k-1 (key, path, creator, timestamp, status, flags).
C6_TableMatchesCache ==
    \A p \in DOMAIN cache :
        /\ cache[p].key \in 1 .. Len(table)
        /\ table[cache[p].key] = cache[p]

\* C7: update on a tracked path succeeds: with status exists/superseded and
\* the file on disk it returns the record with that status, the given
\* creator and the file's modification time; with any other status it
\* returns the record with that status and timestamp zero.
C7_UpdateTrackedSucceeds ==
    [][\A filepath \in FilePaths, creator \in Creators,
          status \in StatusInputs, f \in FsStates :
          LET mtime == f[_get_fullpath(base_path, filepath)]
          IN  (/\ Tracked(filepath)
               /\ (status \in {exists, superseded} => mtime # NoFile)
               /\ UpdateFileCall(filepath, creator, status, f))
              => /\ last'.err = NoError
                 /\ last'.handle.status = status
                 /\ last'.handle.creator = creator
                 /\ last'.handle.timestamp =
                        IF status \in {exists, superseded} THEN mtime ELSE 0
      ]_vars

\* C8: update with status exists/superseded on a tracked path whose file is
\* not on disk fails with Inconsistent and changes nothing.
C8_UpdateAbsentFileInconsistent ==
    [][\A filepath \in FilePaths, creator \in Creators,
          status \in {exists, superseded}, f \in FsStates :
          (/\ Tracked(filepath)
           /\ f[_get_fullpath(base_path, filepath)] = NoFile
           /\ UpdateFileCall(filepath, creator, status, f))
              => (last'.err = Inconsistent /\ table' = table /\ cache' = cache)
      ]_vars

\* C9: update on an untracked path fails with NotFound and leaves the table
\* and the cache as they were.
C9_UpdateUntrackedNotFound ==
    [][\A filepath \in FilePaths, creator \in Creators,
          status \in StatusInputs, f \in FsStates :
          (~Tracked(filepath) /\ UpdateFileCall(filepath, creator, status, f))
              => (last'.err = NotFound /\ table' = table /\ cache' = cache)
      ]_vars

\* update_file has just raised KeyError on a non-empty archive.
C9_Witness ==
    /\ last.op = "update_file"
    /\ last.err = NotFound
    /\ Len(table) >= 1
    /\ \E p \in FilePaths : ~Tracked(p)

\* C10: a record that a call leaves with status exists or superseded has
\* the modification time that call saw on disk as its timestamp; if the
\* call saw no file, the record is not left in exists/superseded.
C10_StatusMatchesDisk ==
    [][/\ \A filepath \in FilePaths, creator \in Creators,
            status \in StatusInputs, f \in FsStates :
            LET mtime == f[_get_fullpath(base_path, filepath)]
                lp == _get_localpath(base_path, filepath)
            IN  (\/ RegisterFileCall(filepath, creator, status, f)
                 \/ UpdateFileCall(filepath, creator, status, f))
                => ((/\ lp \in DOMAIN cache'
                     /\ cache'[lp].status \in {exists, superseded}
                     /\ (lp \notin DOMAIN cache \/ cache'[lp] # cache[lp]))
                    => (mtime # NoFile /\ cache'[lp].timestamp = mtime))
       /\ \A file_list \in FileLists, file_dict \in FileDicts :
            GetFileIdsCall(file_list, file_dict)
                => (\A lp \in DOMAIN cache' :
                        (lp \notin DOMAIN cache \/ cache'[lp] # cache[lp])
                            => cache'[lp].status \notin {exists, superseded})
      ]_vars

\* C11: register on an untracked path never fails.  Requested with status
\* exists, the record gets status exists and the file's modification time
\* when the file is on disk, and status missing with timestamp 0 when it is
\* not; requested with any other status, the record keeps that status with
\* timestamp 0.
C11_RegisterUntracked ==
    [][(last'.op = "register_file") =>
        \A filepath \in FilePaths, creator \in Creators,
           status \in StatusInputs, f \in FsStates :
          (~Tracked(filepath) /\ RegisterFileCall(filepath, creator, status, f))
              => LET h == last'.handle
                     fullpath == _get_fullpath(base_path, filepath)
                     on_disk == f[fullpath] # NoFile
                 IN  /\ last'.err = NoError
                     /\ table' = Append(table, h)
                     /\ cache'[_get_localpath(base_path, filepath)] = h
                     /\ (status = exists /\ on_disk)
                            => (h.status = exists /\ h.timestamp = f[fullpath])
                     /\ (status = exists /\ ~on_disk)
                            => (h.status = missing /\ h.timestamp = 0)
                     /\ (status # exists)
                            => (h.status = status /\ h.timestamp = 0)
      ]_vars

\* A first registration with status exists found no file on disk, a later
\* one of another path found its file.
C11_Witness ==
    /\ Len(table) = 2
    /\ table[1].path # table[2].path
    /\ table[1].status = missing /\ table[1].timestamp = 0
    /\ table[2].status = exists /\ table[2].timestamp \in Mtimes
    /\ last.op = "register_file" /\ last.err = NoError
    /\ last.handle = table[2]

\* C12: once a path is tracked, no later register, update or
\* get_file_ids changes the key that get_handle reports for it, nor the
\* path stored in its record.
C12_KeyAndPathStable ==
    [][\A filepath \in FilePaths :
          Tracked(filepath)
              => /\ ~get_handle_raises(base_path, cache', filepath)
                 /\ get_handle(base_path, cache', filepath).key
                        = get_handle(base_path, cache, filepath).key
                 /\ get_handle(base_path, cache', filepath).path
                        = get_handle(base_path, cache, filepath).path
      ]_vars

\* C13: keys are 1-based positions, row k-1 holding the record with key
\* k, so get_file_paths applied to what get_file_ids(paths) returns gives
\* the stored paths of those records in the same order; a key list that is
\* empty or None gives an empty result.
C13_PathsForIds ==
    /\ \A i \in 1 .. Len(table) : table[i].key = i
    /\ get_file_paths(table, IdNone) = [err |-> NoError, paths |-> <<>>]
    /\ get_file_paths(table, IdList(<<>>)) = [err |-> NoError, paths |-> <<>>]
    /\ \A file_list \in FileLists, file_dict \in FileDicts :
          LET r == get_file_ids(base_path, table, cache, EmptyFs, file_list,
                                PyNone, expected, file_dict)
              g == get_file_paths(r.table, IdList(r.ids))
          IN  r.err = NoError
                => /\ g.err = NoError
                   /\ g.paths = [i \in 1 .. Len(file_list) |->
                         get_handle(base_path, r.cache, file_list[i]).path]

\* C14: a get_file_ids call that fails (the classifier given has no entry
\* for one of the paths) leaves the table and the cache exactly as they
\* were before the call, the paths ahead of the failing one included.
C14_FailedResolveLeavesState ==
    [][(last'.op = "get_file_ids") =>
        \A file_list \in FileLists, file_dict \in FileDicts :
          (GetFileIdsCall(file_list, file_dict) /\ last'.err # NoError)
              => (table' = table /\ cache' = cache)
      ]_vars

\* ------------------------------------------ _get_localpath / _get_fullpath
\* The two path helpers applied in turn to a file under the base path.
\* Base paths with and without a trailing separator.
PathBases == { <<"/", "d">>, <<"/", "d", "/">> }
PathChars == {"a", "d", "/"}
\* Relative paths: they do not start with the separator.
RelPaths == { rel \in UNION { [1 .. n -> PathChars] : n \in 1 .. MaxRel } :
                rel[1] # "/" }

\* A FileArchive just constructed, no call made.
FreshArchive ==
    /\ table = <<>>
    /\ cache = [p \in {} |-> NoHandle]
    /\ last = NoCall
    /\ pc = [t \in Threads |-> "idle"]
    /\ loc = [t \in Threads |-> IdleLoc]

InitPaths ==
    /\ base_path \in PathBases
    /\ FreshArchive
    /\ fd = NoFileDict
    /\ \E rel \in RelPaths :
          io = [op |-> "none", rel |-> rel,
                filepath |-> os_path_join(base_path, rel),
                localpath |-> <<>>, fullpath |-> <<>>, err |-> NoError]

\* localpath = self._get_localpath(filepath)
GetLocalpath ==
    /\ io.op = "none"
    /\ io' = [io EXCEPT !.op = "_get_localpath",
                        !.localpath = _get_localpath(base_path, io.filepath)]
    /\ UNCHANGED <<base_path, table, cache, last, pc, loc, fd>>

\* fullpath = self._get_fullpath(localpath); filepath[0] of an empty
\* string raises IndexError.
GetFullpath ==
    /\ io.op = "_get_localpath"
    /\ io' = IF io.localpath = <<>>
             THEN [io EXCEPT !.op = "_get_fullpath", !.err = IndexError]
             ELSE [io EXCEPT !.op = "_get_fullpath",
                      !.fullpath = _get_fullpath(base_path, io.localpath)]
    /\ UNCHANGED <<base_path, table, cache, last, pc, loc, fd>>

NextPaths ==
    \/ GetLocalpath
    \/ GetFullpath

SpecPaths == InitPaths /\ [][NextPaths]_vars

\* C15: for a file under the base path, _get_localpath gives the path
\* relative to the base (base "/data", file "/data/run1/evt.fits": local
\* path "run1/evt.fits"), and _get_fullpath of that local path is the
\* file's path again.
C15_LocalFullRoundTrip ==
    /\ (io.op \in {"_get_localpath", "_get_fullpath"})
          => io.localpath = io.rel
    /\ (io.op = "_get_fullpath")
          => (io.err = NoError /\ io.fullpath = io.filepath)

\* -------------------------------------------------------------- FileFlags
\* Python's & and | on non-negative integers, bit by bit.
RECURSIVE BitAnd(_, _)
BitAnd(a, b) ==
    IF a = 0 \/ b = 0 THEN 0
    ELSE (a % 2) * (b % 2) + 2 * BitAnd(a \div 2, b \div 2)

RECURSIVE BitOr(_, _)
BitOr(a, b) ==
    IF a = 0 THEN b
    ELSE IF b = 0 THEN a
    ELSE (IF a % 2 = 1 \/ b % 2 = 1 THEN 1 ELSE 0)
             + 2 * BitOr(a \div 2, b \div 2)

rm_mask == 4
gz_mask == 8
internal_mask == 16

\* Mutant: the output bit left out of the chain-input mask.
in_ch_mask_without_output == BitOr(input_mask, BitOr(rm_mask, internal_mask))

in_ch_mask == BitOr(input_mask, BitOr(output_mask, BitOr(rm_mask, internal_mask)))
out_ch_mask == BitOr(output_mask, BitOr(rm_mask, internal_mask))

\* Every combination of the five flag bits.
AllFlags ==
    0 .. BitOr(input_mask, BitOr(output_mask, BitOr(rm_mask,
                   BitOr(gz_mask, internal_mask))))

\* --------------------------------------------------------------- FileDict
\* The tests of chain_input_files and chain_output_files on one entry.
is_chain_input(val) == BitAnd(val, in_ch_mask) = input_mask
is_chain_output(val) == BitAnd(val, out_ch_mask) = output_mask

chain_input_files(file_dict) ==
    { key \in DOMAIN file_dict : is_chain_input(file_dict[key]) }
chain_output_files(file_dict) ==
    { key \in DOMAIN file_dict : is_chain_output(file_dict[key]) }

\* Mutant: the incoming flags replace the entry's flags.
update_entry_assigns(has_key, old, val) == val

\* Mutant: an entry that exists keeps its flags (setdefault).
update_entry_keeps(has_key, old, val) == IF has_key THEN old ELSE val

\* The body of update's loop for one key: |= when the key is there,
\* assignment when it is not.
update_entry(has_key, old, val) == IF has_key THEN BitOr(old, val) ELSE val

\* FileDict.update: every key of file_dict is visited once, so the order
\* of the visit does not matter.
update(self_file_dict, file_dict) ==
    [key \in DOMAIN self_file_dict \cup DOMAIN file_dict |->
        IF key \in DOMAIN file_dict
        THEN update_entry(key \in DOMAIN self_file_dict,
                          IF key \in DOMAIN self_file_dict
                          THEN self_file_dict[key] ELSE no_flags,
                          file_dict[key])
        ELSE self_file_dict[key]]

\* str.split(): the maximal runs of non-blank characters (as a set: every
\* token is stored with the same flags).
str_split(s) ==
    LET n == Len(s)
        blank(i) == i < 1 \/ i > n \/ s[i] = " "
    IN  { SubSeq(s, ij[1], ij[2]) :
            ij \in { x \in (1 .. n) \X (1 .. n) :
                       /\ x[1] <= x[2]
                       /\ blank(x[1] - 1) /\ blank(x[2] + 1)
                       /\ \A k \in x[1] .. x[2] : s[k] # " " } }

gz == <<".", "g", "z">>
args_key == <<"a", "r", "g", "s">>
in_key == <<"i", "n">>
out_key == <<"o", "u", "t">>
\* args[key] is None
ArgNone == <<"None">>

\* key[0:4] == 'args'
is_args_key(key) ==
    SubSeq(key, 1, IF Len(key) < 4 THEN Len(key) ELSE 4) = args_key

\* The paths one schema key adds in latch_file_info: none when args has no
\* such key (KeyError, passed over) or holds None; every blank-separated
\* token for an 'args' key; else the value; each with replace('.gz', '').
latch_paths(key, args) ==
    IF key \notin DOMAIN args THEN {}
    ELSE IF args[key] = ArgNone THEN {}
    ELSE IF is_args_key(key)
         THEN { str_replace(token, gz, <<>>) : token \in str_split(args[key]) }
         ELSE { str_replace(args[key], gz, <<>>) }

\* latch_file_info: the file_dict it can leave.  When two schema keys give
\* the same path, the one visited last by file_args.items() wins; that
\* order is the dict's, so either outcome is possible.
latch_file_info(file_args, args) ==
    LET paths == UNION { latch_paths(key, args) : key \in DOMAIN file_args }
        vals  == { file_args[key] : key \in DOMAIN file_args }
    IN  { m \in [paths -> vals] :
            \A path \in paths :
                \E key \in DOMAIN file_args :
                    path \in latch_paths(key, args) /\ m[path] = file_args[key] }

\* ------------------------------------------------------- FileDict inputs
\* Two links' schemas: an input file, an output file and free arguments
\* that name more input files; in the second the output is compressed.
Schemas ==
    { (in_key :> input_mask) @@ (out_key :> output_mask)
          @@ (args_key :> input_mask),
      (in_key :> input_mask) @@ (out_key :> BitOr(output_mask, gz_mask))
          @@ (args_key :> input_mask) }

\* Argument sets: plain and compressed names, a name that holds ".gz"
\* before its end, two arguments naming one file, a None and a missing
\* argument, and a blank-separated list.
ArgSets ==
    { (in_key :> <<"a">>) @@ (out_key :> <<"b", ".", "g", "z">>),
      (in_key :> <<"a", ".", "g", "z">>) @@ (out_key :> <<"a">>),
      (in_key :> <<".", "g", "z", "a">>),
      (in_key :> ArgNone)
          @@ (args_key :> <<"a", " ", "b", ".", "g", "z">>),
      (out_key :> <<"b">>) }

\* The paths the children of a chain declare, and their classifiers: one
\* path with one flag each, and one child that declares every path.
KeyList == << <<"a">>, <<"b">> >>
ChildPaths == { KeyList[i] : i \in 1 .. MaxKeys }
ChildDicts ==
    { (path :> val) : path \in ChildPaths,
          val \in {input_mask, output_mask, rm_mask, gz_mask, internal_mask} }
    \cup { [path \in ChildPaths |-> input_mask] }

\* FileDict(file_args=...): file_dict empty.
InitFileDict ==
    /\ base_path \in BasePaths
    /\ FreshArchive
    /\ io = NoIo
    /\ \E file_args \in Schemas :
          fd = [op |-> "init", file_args |-> file_args,
                file_dict |-> [path \in {} |-> no_flags]]

\* One call latch_file_info(args).
LatchFileInfoCall(args) ==
    /\ \E file_dict \in latch_file_info(fd.file_args, args) :
          fd' = [fd EXCEPT !.op = "latch_file_info", !.file_dict = file_dict]
    /\ UNCHANGED <<base_path, table, cache, last, pc, loc, io>>

LatchFileInfo == \E args \in ArgSets : LatchFileInfoCall(args)

\* One call update(file_dict) with a child's classifier.
UpdateCall(file_dict) ==
    /\ fd' = [fd EXCEPT !.op = "update",
                        !.file_dict = update(fd.file_dict, file_dict)]
    /\ UNCHANGED <<base_path, table, cache, last, pc, loc, io>>

Update == \E file_dict \in ChildDicts : UpdateCall(file_dict)

NextFileDict ==
    \/ LatchFileInfo
    \/ Update

SpecFileDict == InitFileDict /\ [][NextFileDict]_vars

\* C16 as stated: merging a child that declares a file as output and a
\* child that declares it as input tags the file output|input|internal,
\* and the file is in neither chain_input_files nor chain_output_files.
C16_MergedTaggedInternal ==
    \A path \in ChildPaths :
        LET m == update(update(fd.file_dict, path :> output_mask),
                        path :> input_mask)
            tag == BitOr(output_mask, BitOr(input_mask, internal_mask))
        IN  /\ BitAnd(m[path], tag) = tag
            /\ path \notin chain_input_files(m)
            /\ path \notin chain_output_files(m)

\* C16, amended: merging a child that declares a file as output and a
\* child that declares it as input, in either order, ORs the output and
\* input bits into the file's flags and adds no other bit, so the internal
\* bit is set only when a classifier declared it; the file is not in
\* chain_input_files, and it is in chain_output_files exactly when it is
\* marked neither internal nor remove.
C16_MergedOutputInput ==
    \A path \in ChildPaths :
        LET old == IF path \in DOMAIN fd.file_dict
                   THEN fd.file_dict[path] ELSE no_flags
            m == update(update(fd.file_dict, path :> output_mask),
                        path :> input_mask)
            m2 == update(update(fd.file_dict, path :> input_mask),
                         path :> output_mask)
        IN  /\ m2 = m
            /\ m[path] = BitOr(old, BitOr(output_mask, input_mask))
            /\ path \notin chain_input_files(m)
            /\ (path \in chain_output_files(m))
                  <=> (BitAnd(m[path], BitOr(rm_mask, internal_mask)) = 0)

\* Children were merged that left a file tagged output|input and nothing
\* else: it counts as a chain output.
C16_Witness ==
    /\ fd.op = "update"
    /\ \E path \in DOMAIN fd.file_dict :
          /\ fd.file_dict[path] = BitOr(output_mask, input_mask)
          /\ path \in chain_output_files(fd.file_dict)
          /\ path \notin chain_input_files(fd.file_dict)

\* C17: update is a per-path bitwise OR, commutative and idempotent: B then
\* C merged into A gives the same map as C then B, A merged into B the
\* same map as B merged into A, and merging B a second time changes
\* nothing.
C17_MergeCommutesIdempotent ==
    \A B \in ChildDicts :
        LET A == fd.file_dict
            AB == update(A, B)
            at(d, key) == IF key \in DOMAIN d THEN d[key] ELSE no_flags
        IN  /\ DOMAIN AB = DOMAIN A \cup DOMAIN B
            /\ \A key \in DOMAIN AB : AB[key] = BitOr(at(A, key), at(B, key))
            /\ update(B, A) = AB
            /\ update(AB, B) = AB
            /\ \A C \in ChildDicts :
                  update(AB, C) = update(update(A, C), B)

\* Every child flag has been merged into one file's entry.
C17_Witness ==
    /\ fd.op = "update"
    /\ \E path \in DOMAIN fd.file_dict :
          fd.file_dict[path] = BitOr(in_ch_mask, gz_mask)

\* C18: no combination of the five flags passes both the chain-input test
\* and the chain-output test, so chain_input_files and chain_output_files
\* of a classifier never share a file.
C18_ChainInputOutputDisjoint ==
    /\ \A val \in AllFlags : ~(is_chain_input(val) /\ is_chain_output(val))
    /\ chain_input_files(fd.file_dict) \cap chain_output_files(fd.file_dict)
          = {}

\* A merged classifier with both a chain input and a chain output.
C18_Witness ==
    /\ fd.op = "update"
    /\ chain_input_files(fd.file_dict) # {}
    /\ chain_output_files(fd.file_dict) # {}

\* C19: latch_file_info removes only a trailing ".gz": the key recorded
\* for an argument value is the value without a final ".gz" and otherwise
\* the value itself.
C19_OnlyTrailingGzRemoved ==
    [][\A args \in ArgSets :
          LatchFileInfoCall(args)
              => LET strip(v) == IF Len(v) >= 3 /\ SubSeq(v, Len(v) - 2, Len(v)) = gz
                                 THEN SubSeq(v, 1, Len(v) - 3) ELSE v
                     values(key) == IF key \notin DOMAIN args \/ args[key] = ArgNone
                                    THEN {}
                                    ELSE IF is_args_key(key) THEN str_split(args[key])
                                    ELSE {args[key]}
                 IN  DOMAIN fd'.file_dict =
                        { strip(v) : v \in UNION { values(key) : key \in DOMAIN fd.file_args } }
      ]_vars

\* ----------------------------------------------- make_table / make_dict
\* FileHandle._create_from_row: a FileHandle from the row's six columns
\* (astype(str) leaves a path of a few characters as it is).
_create_from_row(table_row) ==
    FileHandle(table_row.key, table_row.path, table_row.creator,
               table_row.timestamp, table_row.status, table_row.flags)

\* make_table: every value of file_dict appended to an empty table, in
\* the order vals in which file_dict.values() gives them.
RECURSIVE make_table(_)
make_table(vals) ==
    IF vals = <<>> THEN <<>>
    ELSE _append_to_table(vals[Len(vals)],
                          make_table(SubSeq(vals, 1, Len(vals) - 1)))

\* The for loop of make_dict: file_handle is rebound for every row.
RECURSIVE make_dict_loop(_, _)
make_dict_loop(tbl, file_handle) ==
    IF tbl = <<>> THEN file_handle
    ELSE make_dict_loop(Tail(tbl), _create_from_row(Head(tbl)))

\* make_dict: the insertion into ret_dict follows the loop, so it happens
\* once, with the handle of the last row; with no row file_handle was
\* never bound.
make_dict(tbl) ==
    IF tbl = <<>>
    THEN [err |-> UnboundLocalError, ret_dict |-> [k \in {} |-> NoHandle]]
    ELSE LET file_handle == make_dict_loop(tbl, NoHandle)
         IN  [err |-> NoError,
              ret_dict |-> (file_handle.key :> file_handle)]

\* Record sets keyed by FileHandle.key.
RecordPaths == { <<"a">>, <<"b">> }
RecordDicts ==
    UNION { [keys -> { FileHandle(0, path, NoCreator, 0, status, no_flags) :
                          path \in RecordPaths, status \in StatusInputs }] :
            keys \in SUBSET (1 .. MaxRecs) }
HandleDicts ==
    { [k \in DOMAIN d |-> [d[k] EXCEPT !.key = k]] : d \in RecordDicts }

\* The orders in which a dict can hand out its values.
ValueOrders(d) ==
    { [i \in DOMAIN order |-> d[order[i]]] :
        order \in { o \in [1 .. Cardinality(DOMAIN d) -> DOMAIN d] :
                      \A i, j \in DOMAIN o : o[i] = o[j] => i = j } }

InitTable ==
    /\ base_path \in BasePaths
    /\ FreshArchive
    /\ fd = NoFileDict
    /\ \E d \in HandleDicts :
          io = [op |-> "none", file_dict |-> d, table |-> <<>>,
                ret_dict |-> [k \in {} |-> NoHandle], err |-> NoError]

\* table = FileHandle.make_table(file_dict)
MakeTable ==
    /\ io.op = "none"
    /\ \E vals \in ValueOrders(io.file_dict) :
          io' = [io EXCEPT !.op = "make_table", !.table = make_table(vals)]
    /\ UNCHANGED <<base_path, table, cache, last, pc, loc, fd>>

\* ret_dict = FileHandle.make_dict(table)
MakeDict ==
    /\ io.op = "make_table"
    /\ LET r == make_dict(io.table)
       IN  io' = [io EXCEPT !.op = "make_dict", !.ret_dict = r.ret_dict,
                           !.err = r.err]
    /\ UNCHANGED <<base_path, table, cache, last, pc, loc, fd>>

NextTable ==
    \/ MakeTable
    \/ MakeDict

SpecTable == InitTable /\ [][NextTable]_vars

\* C20: make_dict(make_table(d)) has one entry for every record of d,
\* under the record's key and with the same key, path, creator, timestamp,
\* status and flags; no row is dropped, whether d is empty or has several
\* records.
C20_TableRoundTrip ==
    (io.op = "make_dict") => (io.err = NoError /\ io.ret_dict = io.file_dict)

\* C21: for paths that are all tracked already, get_file_ids returns their
\* existing keys and creates no record, with no classifier or with any
\* classifier, whatever paths it has entries for; the classifier's flags
\* are looked up only for paths that have to be registered.
C21_TrackedResolveIgnoresClassifier ==
    \A file_list \in FileLists, file_dict \in FileDicts :
        (\A i \in 1 .. Len(file_list) : Tracked(file_list[i]))
            => LET r == get_file_ids(base_path, table, cache, EmptyFs,
                                     file_list, PyNone, expected, file_dict)
               IN  /\ r.err = NoError
                   /\ r.ids = [i \in 1 .. Len(file_list) |->
                                 get_handle(base_path, cache, file_list[i]).key]
                   /\ r.table = table
                   /\ r.cache = cache

====
